---- MODULE Spec2Model ----
(***************************************************************************)
(* Rule configuration store and versioning engine of                       *)
(* rate-limiter-config-storage: ConfigService (config-service-improved.ts) *)
(* over the key-value storage of the hosting Durable Object, and the       *)
(* migration that ConfigStorage's constructor starts.                      *)
(*                                                                         *)
(* Storage keys: rule_ids (the index), rule_<id>, versions_<id>, and the   *)
(* legacy blob "rules".  An absent value is the empty sequence None, a     *)
(* present value x is the one-element sequence Some(x).                    *)
(***************************************************************************)
EXTENDS Integers, Sequences, FiniteSets, TLC

\* ------------------------------------------------------------------ bounds
\* Largest value of the clock (Date.now(), in ticks).
MaxNow == 1
\* Number of requests served in one run.
MaxRequests == 3
\* Longest orderedIds list handed to reorderRules.
MaxOrderLen == 2
\* Length of the legacy history found under versions_<id> at start-up.
MaxLegacyVersions == 2
\* VERSION_LIMIT is 20 in src-ts/constants/index.ts; the model keeps the
\* truncation but scales the length down.
VERSION_LIMIT == 2
\* CACHE_TTL is 60000 ms in src-ts/constants/index.ts; scaled to clock ticks.
CACHE_TTL == 1

\* ------------------------------------------------------------------ values
Ids == {"a", "b"}

None == <<>>
Some(x) == <<x>>
IsSome(o) == o /= <<>>
Val(o) == o[1]

\* (a.priority ?? 999)
MISSING_PRIORITY == 999

\* A number that is not finite (Infinity, NaN): typeof gives 'number', so the
\* type checks of validateField accept it.
NON_FINITE == MISSING_PRIORITY + 1

\* HttpStatus
OK == 200
BAD_REQUEST == 400
NOT_FOUND == 404
INTERNAL_SERVER_ERROR == 500

\* The page size handleGet falls back to, and the largest one it lets pass.
DEFAULT_PAGE_SIZE == 10
MAX_PAGE_SIZE == 100

Range(s) == {s[i] : i \in 1..Len(s)}
Contains(s, x) == \E i \in 1..Len(s) : s[i] = x
Take(s, n) == SubSeq(s, 1, IF Len(s) < n THEN Len(s) ELSE n)
SeqsUpTo(S, n) == UNION {[1..k -> S] : k \in 0..n}

\* A rule: id, rateLimit.limit (the field the checks of validateRateLimit
\* read), optional priority, createdAt, updatedAt.
MkRule(id, limit, priority, createdAt, updatedAt) ==
    [id |-> id, limit |-> limit, priority |-> priority,
     createdAt |-> createdAt, updatedAt |-> updatedAt]

\* A RuleVersion: {versionId, timestamp, rule}.
MkVersion(versionId, timestamp, rule) ==
    [versionId |-> versionId, timestamp |-> timestamp, rule |-> rule]

VARIABLES
    ruleIds,          \* storage key rule_ids: None or Some(sequence of ids)
    rules,            \* storage keys rule_<id>: None or Some(rule)
    versions,         \* storage keys versions_<id>: sequence of versions
    legacy,           \* storage key "rules": [kind, rules]
    cachedConfig,     \* ConfigService.cachedConfig: None or Some(rules)
    lastConfigFetch,  \* ConfigService.lastConfigFetch
    now,              \* Date.now()
    nextVersionId,    \* the next value of crypto.randomUUID()
    mig,              \* progress of the migration the constructor started
    sink,             \* env.CONFIG_QUEUE: "ok", "fails" (send rejects), "absent"
    served,           \* number of requests served so far
    ret               \* what the last operation returned and did

vars == <<ruleIds, rules, versions, legacy, cachedConfig, lastConfigFetch,
          now, nextVersionId, mig, sink, served, ret>>

storage == <<ruleIds, rules, versions, legacy>>
cache == <<cachedConfig, lastConfigFetch>>

\* ------------------------------------------------------------ pure helpers
\* JSON.parse(JSON.stringify(rule)): a number that is not finite is written as
\* null, which every later reader takes as no priority (priority ?? 999); an
\* undefined field is left out.
JsonRoundTrip(rule) ==
    [rule EXCEPT !.priority = IF @ = Some(NON_FINITE) THEN None ELSE @]

\* JSON.parse(ruleIdsStr || '[]')
ParseIds(key) == IF IsSome(key) THEN Val(key) ELSE <<>>

\* The id "" stands for "no exempt id" (exemptId = null).
NoId == ""

\* validateRuleId: the uniqueness check; every id of Ids is a non-empty
\* string of the allowed alphabet.
validateRuleId(id, existingIds, exemptId) ==
    ~(Contains(existingIds, id) /\ id /= exemptId)

\* validateRateLimit: rateLimit.limit <= 0 is an error.
validateRateLimit(limit) == limit > 0

\* validateRule(rule, existingIds, exemptId).valid
validateRule(rule, existingIds, exemptId) ==
    /\ validateRuleId(rule.id, existingIds, exemptId)
    /\ validateRateLimit(rule.limit)

\* rules.sort((a, b) => (a.priority ?? 999) - (b.priority ?? 999)), a stable
\* sort: an element goes behind every element whose key is not larger.
PriorityKey(r) == IF IsSome(r.priority) THEN Val(r.priority) ELSE MISSING_PRIORITY

RECURSIVE InsertByPriority(_, _)
InsertByPriority(sorted, r) ==
    IF sorted = <<>> THEN <<r>>
    ELSE IF PriorityKey(Head(sorted)) <= PriorityKey(r)
         THEN <<Head(sorted)>> \o InsertByPriority(Tail(sorted), r)
         ELSE <<r>> \o sorted

RECURSIVE SortByPriority(_)
SortByPriority(s) ==
    IF s = <<>> THEN <<>>
    ELSE InsertByPriority(SortByPriority(SubSeq(s, 1, Len(s) - 1)), s[Len(s)])

\* ruleResults.map(parse).filter(rule => rule !== null) over the keys rule_<id>
RECURSIVE FetchRules(_, _)
FetchRules(rs, ids) ==
    IF ids = <<>> THEN <<>>
    ELSE (IF IsSome(rs[Head(ids)]) THEN <<Val(rs[Head(ids)])>> ELSE <<>>)
         \o FetchRules(rs, Tail(ids))

\* What an unpaginated getConfig() reads from storage.
StoredConfig(idsKey, rs) == SortByPriority(FetchRules(rs, ParseIds(idsKey)))

\* cachedConfig.rules.find(r => r.id === ruleId)
FindRule(rs, ruleId) ==
    IF \E i \in 1..Len(rs) : rs[i].id = ruleId
    THEN Some(rs[CHOOSE i \in 1..Len(rs) :
                    /\ rs[i].id = ruleId
                    /\ \A j \in 1..(i - 1) : rs[j].id /= ruleId])
    ELSE None

\* ruleIds.filter(id => id !== ruleId)
RemoveId(ids, ruleId) == SelectSeq(ids, LAMBDA x : x /= ruleId)

\* archiveRuleVersion(rule): nothing for a null rule; else the new version
\* goes to the front of versions_<rule.id>, cut to VERSION_LIMIT entries.
archiveRuleVersion(vs, ruleOpt, versionId, timestamp) ==
    IF ~IsSome(ruleOpt) THEN vs
    ELSE [vs EXCEPT ![Val(ruleOpt).id] =
             Take(<<MkVersion(Some(versionId), timestamp,
                              Some(JsonRoundTrip(Val(ruleOpt))))>> \o @,
                  VERSION_LIMIT)]

\* The state an operation works on: the storage keys it reads and writes,
\* the service's cache fields, the clock and the next uuid; versionsPut tells
\* whether the puts of versions_<id> made during the call succeed.
St == [ruleIds |-> ruleIds, rules |-> rules, versions |-> versions,
       cachedConfig |-> cachedConfig, lastConfigFetch |-> lastConfigFetch,
       now |-> now, nextVersionId |-> nextVersionId, sink |-> sink,
       versionsPut |-> "ok", last |-> ret]

\* The same state for a call during which every put of versions_<id> rejects.
ArchiveFailing(st) == [st EXCEPT !.versionsPut = "fails"]

\* this.archiveRuleVersion(rule) on a state: the uuid is used up when the
\* version object is built; a put that rejects is caught and logged, and the
\* history stays as it was.
archive(st, ruleOpt) ==
    IF ~IsSome(ruleOpt) THEN st
    ELSE [st EXCEPT
            !.versions = IF st.versionsPut = "fails" THEN @
                         ELSE archiveRuleVersion(@, ruleOpt,
                                                 st.nextVersionId, st.now),
            !.nextVersionId = @ + 1]

\* invalidateCache() with the two assignments left out.
invalidateCacheKeeps(st) == st

\* invalidateCache(): cachedConfig = null, lastConfigFetch = 0
invalidateCache(st) ==
    [st EXCEPT !.cachedConfig = None, !.lastConfigFetch = 0]

\* The calls that change the configuration.
Mutating == {"addRule", "updateRule", "deleteRule", "reorderRules", "revertRule"}

\* What a call returned and did: its name, whether it succeeded, the error it
\* threw, whether the data came from the whole-set cache, the age of that
\* cache (now - lastConfigFetch), the number of config_update messages sent,
\* the status of the HTTP response (0 for a call of the service itself),
\* heldAtSend: whether the service held a cached snapshot when the message was
\* handed to the queue, and dropped: for a successful mutating call the lastConfigFetch of the
\* snapshot it found cached (-1 when there was none), for a read that comes
\* right after such a call the same value, else -1.
Ret(st, op, ok, error, fromCache, age, sent) ==
    [op |-> op, ok |-> ok, error |-> error, fromCache |-> fromCache,
     age |-> age, sent |-> sent, status |-> 0,
     heldAtSend |-> sent > 0 /\ IsSome(st.cachedConfig),
     dropped |-> IF op \in Mutating
                 THEN (IF ok /\ IsSome(st.cachedConfig)
                       THEN st.lastConfigFetch ELSE -1)
                 ELSE (IF st.last.op \in Mutating /\ st.last.ok
                       THEN st.last.dropped ELSE -1)]

\* A call that throws before it has written anything (or returns false).
Failed(st, op, error) ==
    [st |-> st, ret |-> Ret(st, op, FALSE, error, FALSE, 0, 0)]

\* The tail of a mutating call that leaves notifyConfigUpdate() out.
CommittedSilent(st, op) ==
    [st |-> invalidateCache(st), ret |-> Ret(st, op, TRUE, "", FALSE, 0, 0)]

\* The tail of a mutating call whose notifyConfigUpdate() lets the rejection
\* of send() pass: the call throws after its writes and before
\* invalidateCache().
CommittedSinkThrows(st, op) ==
    IF st.sink = "fails"
    THEN [st |-> st, ret |-> Ret(st, op, FALSE, "Queue error", FALSE, 0, 0)]
    ELSE [st |-> invalidateCache(st),
          ret |-> Ret(st, op, TRUE, "", FALSE, 0, IF st.sink = "ok" THEN 1 ELSE 0)]

\* The tail of a mutating call whose archiveRuleVersion() lets the rejection
\* of its put pass: the call throws.
CommittedArchiveThrows(st, op) ==
    IF st.versionsPut = "fails"
    THEN [st |-> st, ret |-> Ret(st, op, FALSE, "Storage error", FALSE, 0, 0)]
    ELSE [st |-> invalidateCache(st),
          ret |-> Ret(st, op, TRUE, "", FALSE, 0, IF st.sink = "ok" THEN 1 ELSE 0)]

\* notifyConfigUpdate(): the number of config_update messages the queue took.
\* Without a queue the call returns at once; a send that rejects is caught and
\* logged.
notifyConfigUpdate(st) == IF st.sink = "ok" THEN 1 ELSE 0

\* The tail of every successful mutating call: await notifyConfigUpdate() in
\* the state the writes left, then invalidateCache().
Committed(st, op) ==
    [st |-> invalidateCache(st),
     ret |-> Ret(st, op, TRUE, "", FALSE, 0, notifyConfigUpdate(st))]

\* ------------------------------------------------------------- operations
\* getConfig() without pagination.
getConfig(st) ==
    LET ids == ParseIds(st.ruleIds) IN
    IF ids = <<>>
    THEN [st |-> [st EXCEPT !.cachedConfig = Some(<<>>),
                            !.lastConfigFetch = st.now],
          ret |-> Ret(st, "getConfig", TRUE, "", FALSE, 0, 0)]
    ELSE IF IsSome(st.cachedConfig) /\ st.now - st.lastConfigFetch < CACHE_TTL
    THEN [st |-> st,
          ret |-> Ret(st, "getConfig", TRUE, "", TRUE, st.now - st.lastConfigFetch, 0)]
    ELSE [st |-> [st EXCEPT !.cachedConfig = Some(StoredConfig(st.ruleIds, st.rules)),
                            !.lastConfigFetch = st.now],
          ret |-> Ret(st, "getConfig", TRUE, "", FALSE, 0, 0)]

\* getRule(ruleId): the key rule_<id>, then cachedConfig, then getConfig();
\* value is the rule it returns (None for null).
getRule(ruleId, st) ==
    IF IsSome(st.rules[ruleId])
    THEN [st |-> st, ret |-> Ret(st, "getRule", TRUE, "", FALSE, 0, 0),
          value |-> st.rules[ruleId]]
    ELSE IF IsSome(st.cachedConfig) /\ IsSome(FindRule(Val(st.cachedConfig), ruleId))
    THEN [st |-> st,
          ret |-> Ret(st, "getRule", TRUE, "", TRUE, st.now - st.lastConfigFetch, 0),
          value |-> FindRule(Val(st.cachedConfig), ruleId)]
    ELSE LET g == getConfig(st)
             found == IsSome(FindRule(Val(g.st.cachedConfig), ruleId))
         IN [st |-> g.st,
             ret |-> Ret(st, "getRule", found, "", found /\ g.ret.fromCache,
                         IF found THEN g.ret.age ELSE 0, 0),
             value |-> FindRule(Val(g.st.cachedConfig), ruleId)]

\* addRule that checks the fields of the rule but not whether its id is in
\* the index.
addRuleNoIdCheck(rule, st) ==
    LET ids == ParseIds(st.ruleIds) IN
    IF ~validateRateLimit(rule.limit) THEN Failed(st, "addRule", "Invalid rule")
    ELSE LET stamped == [rule EXCEPT
                           !.createdAt = IF IsSome(@) THEN @ ELSE Some(st.now),
                           !.updatedAt = Some(st.now)]
             put == [st EXCEPT !.ruleIds = Some(Append(ids, rule.id)),
                               !.rules[rule.id] = Some(JsonRoundTrip(stamped))]
         IN Committed(archive(put, Some(stamped)), "addRule")

\* addRule that starts the history of the id anew: versions_<id> is written
\* with the snapshot of the new rule alone.
addRuleFreshHistory(rule, st) ==
    LET ids == ParseIds(st.ruleIds) IN
    IF ~validateRule(rule, ids, NoId) THEN Failed(st, "addRule", "Invalid rule")
    ELSE LET stamped == [rule EXCEPT
                           !.createdAt = IF IsSome(@) THEN @ ELSE Some(st.now),
                           !.updatedAt = Some(st.now)]
             put == [st EXCEPT !.ruleIds = Some(Append(ids, rule.id)),
                               !.rules[rule.id] = Some(JsonRoundTrip(stamped)),
                               !.versions[rule.id] = <<>>]
         IN Committed(archive(put, Some(stamped)), "addRule")

\* addRule(rule)
addRule(rule, st) ==
    LET ids == ParseIds(st.ruleIds) IN
    IF ~validateRule(rule, ids, NoId) THEN Failed(st, "addRule", "Invalid rule")
    ELSE LET stamped == [rule EXCEPT
                           !.createdAt = IF IsSome(@) THEN @ ELSE Some(st.now),
                           !.updatedAt = Some(st.now)]
             put == [st EXCEPT !.ruleIds = Some(Append(ids, rule.id)),
                               !.rules[rule.id] = Some(JsonRoundTrip(stamped))]
         IN Committed(archive(put, Some(stamped)), "addRule")

\* updateRule without the check that rule_<ruleId> exists: an id with no
\* stored rule is written as a new rule.
updateRuleUpsert(ruleId, updatedRule, st) ==
    LET ids == ParseIds(st.ruleIds) IN
    IF ~validateRule(updatedRule, ids, ruleId) THEN Failed(st, "updateRule", "Invalid rule")
    ELSE LET archived == archive(st, st.rules[ruleId])
             finalRule == [updatedRule EXCEPT
                             !.createdAt = IF IsSome(st.rules[ruleId])
                                           THEN Val(st.rules[ruleId]).createdAt
                                           ELSE None,
                             !.updatedAt = Some(st.now)]
         IN Committed([archived EXCEPT
                         !.rules[ruleId] = Some(JsonRoundTrip(finalRule))],
                      "updateRule")

\* updateRule that stores the createdAt of the body instead of the one of the
\* current rule.
updateRuleBodyCreatedAt(ruleId, updatedRule, st) ==
    IF ~IsSome(st.rules[ruleId]) THEN Failed(st, "updateRule", "Rule not found")
    ELSE LET currentRule == Val(st.rules[ruleId])
             ids == ParseIds(st.ruleIds)
         IN IF ~validateRule(updatedRule, ids, ruleId) THEN Failed(st, "updateRule", "Invalid rule")
            ELSE LET archived == archive(st, Some(currentRule))
                     finalRule == [updatedRule EXCEPT !.updatedAt = Some(st.now)]
                 IN Committed([archived EXCEPT
                                 !.rules[ruleId] = Some(JsonRoundTrip(finalRule))],
                              "updateRule")

\* updateRule(ruleId, updatedRule)
updateRule(ruleId, updatedRule, st) ==
    IF ~IsSome(st.rules[ruleId]) THEN Failed(st, "updateRule", "Rule not found")
    ELSE LET currentRule == Val(st.rules[ruleId])
             ids == ParseIds(st.ruleIds)
         IN IF ~validateRule(updatedRule, ids, ruleId) THEN Failed(st, "updateRule", "Invalid rule")
            ELSE LET archived == archive(st, Some(currentRule))
                     finalRule == [updatedRule EXCEPT
                                     !.createdAt = currentRule.createdAt,
                                     !.updatedAt = Some(st.now)]
                 IN Committed([archived EXCEPT
                                 !.rules[ruleId] = Some(JsonRoundTrip(finalRule))],
                              "updateRule")

\* deleteRule without the look at rule_<id>: the id is taken from the index
\* and the call succeeds whether or not a rule is stored.
deleteRuleUnchecked(ruleId, st) ==
    LET archived == archive(st, st.rules[ruleId])
        ids == ParseIds(archived.ruleIds)
    IN Committed([archived EXCEPT !.ruleIds = Some(RemoveId(ids, ruleId)),
                                  !.rules[ruleId] = None],
                 "deleteRule")

\* deleteRule(ruleId): false when the key rule_<id> is absent.
deleteRule(ruleId, st) ==
    IF ~IsSome(st.rules[ruleId]) THEN Failed(st, "deleteRule", "")
    ELSE LET archived == archive(st, st.rules[ruleId])
             ids == ParseIds(archived.ruleIds)
         IN Committed([archived EXCEPT !.ruleIds = Some(RemoveId(ids, ruleId)),
                                       !.rules[ruleId] = None],
                      "deleteRule")

\* The puts of reorderRules: the i-th fetched rule is written, under the key
\* of its own id, with priority i (0-based) and a new updatedAt.
RECURSIVE reorderPuts(_, _, _, _)
reorderPuts(rs, fetched, i, timestamp) ==
    IF i > Len(fetched) THEN rs
    ELSE reorderPuts([rs EXCEPT ![fetched[i].id] =
                         Some([fetched[i] EXCEPT !.priority = Some(i - 1),
                                                 !.updatedAt = Some(timestamp)])],
                     fetched, i + 1, timestamp)

\* The two checks of reorderRules, in their order: every given id is in the
\* index, and the list is as long as the index.
reorderError(orderedIds, currentRuleIds) ==
    IF \E i \in 1..Len(orderedIds) : ~Contains(currentRuleIds, orderedIds[i])
    THEN "Rule not found"
    ELSE IF Len(orderedIds) /= Len(currentRuleIds)
    THEN "All rules must be included"
    ELSE ""

\* reorderRules with the length check made after the puts.
reorderRulesLateCheck(orderedIds, st) ==
    LET currentRuleIds == ParseIds(st.ruleIds)
        error == reorderError(orderedIds, currentRuleIds)
        fetched == FetchRules(st.rules, orderedIds)
        written == [st EXCEPT !.rules = reorderPuts(@, fetched, 1, st.now)]
    IN IF error = "Rule not found" THEN Failed(st, "reorderRules", error)
       ELSE IF error /= "" THEN Failed(written, "reorderRules", error)
       ELSE Committed(written, "reorderRules")

\* reorderRules(ruleIds)
reorderRules(orderedIds, st) ==
    LET currentRuleIds == ParseIds(st.ruleIds) IN
    IF reorderError(orderedIds, currentRuleIds) /= ""
    THEN Failed(st, "reorderRules", reorderError(orderedIds, currentRuleIds))
    ELSE LET fetched == FetchRules(st.rules, orderedIds)
         IN Committed([st EXCEPT !.rules = reorderPuts(@, fetched, 1, st.now)],
                      "reorderRules")

\* versions.find(v => v.versionId === versionId)
FindVersion(vs, versionId) ==
    IF \E i \in 1..Len(vs) : vs[i].versionId = Some(versionId)
    THEN Some(vs[CHOOSE i \in 1..Len(vs) :
                    /\ vs[i].versionId = Some(versionId)
                    /\ \A j \in 1..(i - 1) : vs[j].versionId /= Some(versionId)])
    ELSE None

\* revertRule that takes the newest archived snapshot when the version id is
\* not in the history.
revertRuleNewest(ruleId, versionId, st) ==
    LET vs == st.versions[ruleId]
        found == FindVersion(vs, versionId)
        version == IF IsSome(found) THEN found
                   ELSE IF vs /= <<>> /\ IsSome(vs[1].rule) THEN Some(vs[1])
                   ELSE None
    IN
    IF ~IsSome(version) THEN Failed(st, "revertRule", "Version not found")
    ELSE LET snapshot == [Val(Val(version).rule) EXCEPT !.updatedAt = Some(st.now)]
             ids == ParseIds(st.ruleIds)
         IN IF ~IsSome(st.rules[ruleId])
            THEN Committed([st EXCEPT
                              !.ruleIds = IF Contains(ids, ruleId) THEN @
                                          ELSE Some(Append(ids, ruleId)),
                              !.rules[ruleId] = Some(snapshot)],
                           "revertRule")
            ELSE Committed([archive(st, st.rules[ruleId]) EXCEPT
                              !.rules[ruleId] = Some(snapshot)],
                           "revertRule")

\* revertRule(ruleId, versionId)
revertRule(ruleId, versionId, st) ==
    LET version == FindVersion(st.versions[ruleId], versionId) IN
    IF ~IsSome(version) THEN Failed(st, "revertRule", "Version not found")
    ELSE LET snapshot == [Val(Val(version).rule) EXCEPT !.updatedAt = Some(st.now)]
             ids == ParseIds(st.ruleIds)
         IN IF ~IsSome(st.rules[ruleId])
            THEN Committed([st EXCEPT
                              !.ruleIds = IF Contains(ids, ruleId) THEN @
                                          ELSE Some(Append(ids, ruleId)),
                              !.rules[ruleId] = Some(snapshot)],
                           "revertRule")
            ELSE Committed([archive(st, st.rules[ruleId]) EXCEPT
                              !.rules[ruleId] = Some(snapshot)],
                           "revertRule")

\* ------------------------------------------------- storage calls that reject
\* The mutating calls when the k-th put or delete they issue on rule_ids or
\* on a key rule_<id> rejects.  The methods await each call in turn and have
\* no transaction and no rollback: the exception leaves through the catch
\* that logs and rethrows, the writes made before it stay, and neither
\* notifyConfigUpdate() nor invalidateCache() is reached.
StorageFailed(st, op) ==
    [st |-> st, ret |-> Ret(st, op, FALSE, "Storage error", FALSE, 0, 0)]

\* addRule: put(rule_ids), then put(rule_<id>).
addRuleStorageFails(rule, k, st) ==
    LET ids == ParseIds(st.ruleIds) IN
    IF ~validateRule(rule, ids, NoId) THEN Failed(st, "addRule", "Invalid rule")
    ELSE IF k = 1 THEN StorageFailed(st, "addRule")
    ELSE StorageFailed([st EXCEPT !.ruleIds = Some(Append(ids, rule.id))],
                       "addRule")

\* updateRule: the archive, then put(rule_<id>).
updateRuleStorageFails(ruleId, updatedRule, st) ==
    IF ~updateRule(ruleId, updatedRule, st).ret.ok
    THEN updateRule(ruleId, updatedRule, st)
    ELSE StorageFailed(archive(st, st.rules[ruleId]), "updateRule")

\* deleteRule: the archive, then put(rule_ids), then delete(rule_<id>).
deleteRuleStorageFails(ruleId, k, st) ==
    IF ~IsSome(st.rules[ruleId]) THEN Failed(st, "deleteRule", "")
    ELSE LET archived == archive(st, st.rules[ruleId])
             ids == ParseIds(archived.ruleIds)
         IN IF k = 1 THEN StorageFailed(archived, "deleteRule")
            ELSE StorageFailed([archived EXCEPT
                                  !.ruleIds = Some(RemoveId(ids, ruleId))],
                               "deleteRule")

\* The puts of reorderRules but the k-th: they are all issued before
\* Promise.all awaits them, so the others are made.
RECURSIVE reorderPutsBut(_, _, _, _, _)
reorderPutsBut(rs, fetched, i, timestamp, k) ==
    IF i > Len(fetched) THEN rs
    ELSE reorderPutsBut(
           IF i = k THEN rs
           ELSE [rs EXCEPT ![fetched[i].id] =
                    Some([fetched[i] EXCEPT !.priority = Some(i - 1),
                                            !.updatedAt = Some(timestamp)])],
           fetched, i + 1, timestamp, k)

\* reorderRules: one put for each fetched rule.
reorderRulesStorageFails(orderedIds, k, st) ==
    LET fetched == FetchRules(st.rules, orderedIds) IN
    IF ~reorderRules(orderedIds, st).ret.ok \/ k > Len(fetched)
    THEN reorderRules(orderedIds, st)
    ELSE StorageFailed([st EXCEPT
                          !.rules = reorderPutsBut(@, fetched, 1, st.now, k)],
                       "reorderRules")

\* revertRule: for a deleted rule put(rule_ids) if the id is not in the index,
\* then put(rule_<id>); for a live rule the archive, then put(rule_<id>).
revertRuleStorageFails(ruleId, versionId, k, st) ==
    LET ids == ParseIds(st.ruleIds) IN
    IF ~revertRule(ruleId, versionId, st).ret.ok
    THEN revertRule(ruleId, versionId, st)
    ELSE IF IsSome(st.rules[ruleId])
    THEN StorageFailed(archive(st, st.rules[ruleId]), "revertRule")
    ELSE IF k = 1 \/ Contains(ids, ruleId) THEN StorageFailed(st, "revertRule")
    ELSE StorageFailed([st EXCEPT !.ruleIds = Some(Append(ids, ruleId))],
                       "revertRule")

\* ------------------------------------------- validation of what a caller sends
\* What validateRule and validateRules answer for values that need not be
\* rules.  A value is a record with its kind: a rule is "null", "string" (not
\* an object) or "object"; id and rateLimit are "absent" or given; a match is
\* "null" or an "object" with conditions, which are "notArray" or an "array"
\* of conditions; a condition is "null" or an "object" with an operator and a
\* value ("absent", a text, or the text "(unclosed", which is no pattern).
\* The fields left out here (name, description, fingerprint, the actions, the
\* field of a condition) are well-formed.
RawCondition(kind, operator, value) ==
    [kind |-> kind, operator |-> operator, value |-> value]

RawMatch(kind, conditionsKind, items) ==
    [kind |-> kind, conditions |-> [kind |-> conditionsKind, items |-> items]]

RawRule(kind, id, rateLimit, initialMatch, elseIfActions) ==
    [kind |-> kind, id |-> id, rateLimit |-> rateLimit,
     initialMatch |-> initialMatch, elseIfActions |-> elseIfActions]

\* new ValidationResult() with the errors added; threw is for a call that
\* ends in an exception instead of a result.
ValidationResult(errors) ==
    [threw |-> FALSE, valid |-> errors = {}, errors |-> errors]

Thrown == [threw |-> TRUE, valid |-> FALSE, errors |-> {}]

validOperators ==
    {"equals", "notEquals", "contains", "notContains", "startsWith",
     "endsWith", "matches", "exists", "notExists"}

valueRequiredOperators ==
    {"equals", "notEquals", "contains", "notContains", "startsWith",
     "endsWith", "matches"}

\* validateCondition: the errors it adds; new RegExp(value) is inside a try.
validateCondition(condition) ==
    IF condition.kind /= "object" THEN {"Invalid condition object"}
    ELSE (IF condition.operator \notin validOperators
          THEN {"Invalid operator"} ELSE {})
         \cup (IF condition.operator \in valueRequiredOperators
                   /\ condition.value = "absent"
                THEN {"Value is required for operator"} ELSE {})
         \cup (IF condition.operator = "matches" /\ condition.value = "(unclosed"
                THEN {"Invalid regex pattern"} ELSE {})

\* validateMatch: the errors it adds.
validateMatch(match) ==
    IF match.kind /= "object" THEN {"Invalid match object"}
    ELSE IF match.conditions.kind /= "array" THEN {"Conditions must be an array"}
    ELSE UNION {validateCondition(match.conditions.items[i]) :
                  i \in 1..Len(match.conditions.items)}

\* validateRule(rule, existingIds, exemptId) as a ValidationResult.
validateRuleResult(rule, existingIds, exemptId) ==
    IF rule.kind = "null" THEN ValidationResult({"Rule is null or undefined"})
    ELSE IF rule.kind /= "object" THEN ValidationResult({"Invalid rule type"})
    ELSE ValidationResult(
           (IF rule.id = "absent" THEN {"Rule ID is required"}
            ELSE IF ~validateRuleId(rule.id, existingIds, exemptId)
            THEN {"Rule ID already exists"} ELSE {})
           \cup (IF rule.rateLimit = "absent"
                  THEN {"Missing or invalid rateLimit object"}
                  ELSE IF rule.rateLimit = "zero"
                  THEN {"Rate limit must be greater than 0"} ELSE {})
           \cup validateMatch(rule.initialMatch)
           \cup (IF rule.elseIfActions /= "array"
                  THEN {"elseIfActions must be an array"} ELSE {}))

\* validateRules(rules): rules.map(rule => rule.id) reads the id of every
\* element before any element is looked at, which throws for null; every
\* rule is then validated against the ids of the whole list.
validateRulesResult(list) ==
    IF list.kind /= "array" THEN ValidationResult({"Expected array of rules"})
    ELSE IF \E i \in 1..Len(list.items) : list.items[i].kind = "null"
    THEN Thrown
    ELSE LET ids == [i \in 1..Len(list.items) |-> list.items[i].id]
         IN ValidationResult(
              UNION {validateRuleResult(list.items[i], ids, NoId).errors :
                       i \in 1..Len(list.items)})

\* ------------------------------------------------------------- pagination
Min(x, y) == IF x < y THEN x ELSE y
Max(x, y) == IF x > y THEN x ELSE y

\* Math.ceil(a / b) for b > 0
Ceil(a, b) == (a + b - 1) \div b

\* s.slice(startIndex, endIndex)
Slice(s, startIndex, endIndex) == SubSeq(s, startIndex + 1, Min(endIndex, Len(s)))

\* The pagination arithmetic of getConfig and getRuleVersions: the metadata
\* and the window of the page.
PageOf(totalItems, pagination) ==
    LET totalPages == Ceil(totalItems, pagination.limit)
        currentPage == Max(1, Min(pagination.page,
                                  IF totalPages = 0 THEN 1 ELSE totalPages))
        startIndex == (currentPage - 1) * pagination.limit
        endIndex == Min(startIndex + pagination.limit, totalItems)
    IN [startIndex |-> startIndex, endIndex |-> endIndex,
        meta |-> [currentPage |-> currentPage,
                  pageSize |-> pagination.limit,
                  totalItems |-> totalItems,
                  totalPages |-> totalPages,
                  hasNextPage |-> currentPage < totalPages,
                  hasPrevPage |-> currentPage > 1]]

\* getConfig(pagination) that treats the whole-set cache as the unpaginated
\* call does: a fresh snapshot is cut into the page, and a set read from
\* storage is kept as the new snapshot.
getConfigPageCached(pagination, st) ==
    LET ids == ParseIds(st.ruleIds)
        fresh == IsSome(st.cachedConfig) /\ st.now - st.lastConfigFetch < CACHE_TTL
        all == IF fresh THEN Val(st.cachedConfig)
               ELSE StoredConfig(st.ruleIds, st.rules)
        p == PageOf(Len(all), pagination)
    IN [st |-> IF fresh THEN st
               ELSE [st EXCEPT !.cachedConfig = Some(all),
                               !.lastConfigFetch = st.now],
        ret |-> Ret(st, "getConfig(pagination)", TRUE, "", fresh,
                    IF fresh THEN st.now - st.lastConfigFetch ELSE 0, 0),
        value |-> [rules |-> Slice(all, p.startIndex, p.endIndex),
                   pagination |-> p.meta]]

\* getConfig(pagination): with an empty index the metadata repeats the page
\* and the limit it was given; the cache is neither read nor written.
getConfigPage(pagination, st) ==
    LET ids == ParseIds(st.ruleIds)
        p == PageOf(Len(ids), pagination)
    IN [st |-> st,
        ret |-> Ret(st, "getConfig(pagination)", TRUE, "", FALSE, 0, 0),
        value |->
          IF ids = <<>>
          THEN [rules |-> <<>>,
                pagination |-> [currentPage |-> pagination.page,
                                pageSize |-> pagination.limit,
                                totalItems |-> 0,
                                totalPages |-> 0,
                                hasNextPage |-> FALSE,
                                hasPrevPage |-> FALSE]]
          ELSE [rules |-> SortByPriority(
                            FetchRules(st.rules,
                                       Slice(ids, p.startIndex, p.endIndex))),
                pagination |-> p.meta]]

\* getRuleVersions(ruleId, pagination): pagination is None when the caller
\* gave none, and the whole history is returned.
getRuleVersions(ruleId, pagination, st) ==
    LET allVersions == st.versions[ruleId]
        p == PageOf(Len(allVersions), Val(pagination))
    IN [st |-> st,
        ret |-> Ret(st, "getRuleVersions", TRUE, "", FALSE, 0, 0),
        value |->
          IF ~IsSome(pagination) THEN [versions |-> allVersions]
          ELSE [versions |-> Slice(allVersions, p.startIndex, p.endIndex),
                pagination |-> p.meta]]

\* A query parameter: absent, a text parseInt() does not read, or an integer.
QueryAbsent == [kind |-> "absent", n |-> 0]
QueryText == [kind |-> "text", n |-> 0]
QueryInt(n) == [kind |-> "int", n |-> n]

\* parseInt(url.searchParams.get(name) || fallback, 10); None is NaN.
parseIntOr(q, fallback) ==
    IF q.kind = "absent" THEN Some(fallback)
    ELSE IF q.kind = "text" THEN None
    ELSE Some(q.n)

\* validPage = !isNaN(page) && page > 0 ? page : 1
validPage(page) == IF IsSome(page) /\ Val(page) > 0 THEN Val(page) ELSE 1

\* validLimit = !isNaN(limit) && limit > 0 && limit <= 100 ? limit : 10
validLimit(limit) ==
    IF IsSome(limit) /\ Val(limit) > 0 /\ Val(limit) <= MAX_PAGE_SIZE
    THEN Val(limit) ELSE DEFAULT_PAGE_SIZE

\* The pagination handleGet hands to the service.
validPagination(page, limit) ==
    [page |-> validPage(parseIntOr(page, 1)),
     limit |-> validLimit(parseIntOr(limit, DEFAULT_PAGE_SIZE))]

\* url.searchParams.has('page') || url.searchParams.has('limit')
hasPaginationParams(page, limit) == page.kind /= "absent" \/ limit.kind /= "absent"

\* The response of a handler: the outcome of the call with the HTTP status.
Respond(res, status) == [res EXCEPT !.ret.status = status]

\* handleGet, path /config
handleGetConfig(page, limit, st) ==
    IF hasPaginationParams(page, limit)
    THEN Respond(getConfigPage(validPagination(page, limit), st), OK)
    ELSE LET g == getConfig(st)
         IN Respond([st |-> g.st, ret |-> g.ret,
                     value |-> [rules |-> Val(g.st.cachedConfig)]], OK)

\* handleGet, path /versions/<ruleId>: an empty list is answered with 404.
handleGetVersions(ruleId, page, limit, st) ==
    LET res == getRuleVersions(ruleId,
                               IF hasPaginationParams(page, limit)
                               THEN Some(validPagination(page, limit))
                               ELSE None, st)
    IN IF res.value.versions /= <<>> THEN Respond(res, OK)
       ELSE Respond([res EXCEPT !.value = [error |-> "No versions found"]],
                    NOT_FOUND)

\* ------------------------------------------- the handlers of POST and PUT
\* A request body is None when it is no JSON or fails isValidRuleStructure,
\* else Some(rule) (for /config/reorder: Some(list of the rules' ids)).
isValidRuleStructure(body) == IsSome(body)

\* await configService.notifyConfigUpdate() of a handler, after the call of
\* the service has sent its own message.
NotifiedAgain(res) == [res EXCEPT !.ret.sent = @ + notifyConfigUpdate(res.st)]

\* handlePost: a body that fails the structure check is answered with 400;
\* every error addRule throws is answered with 500.
handlePost(body, st) ==
    IF ~isValidRuleStructure(body)
    THEN Respond(Failed(st, "addRule", "Invalid rule structure"), BAD_REQUEST)
    ELSE LET rule == [Val(body) EXCEPT
                        !.createdAt = IF IsSome(@) THEN @ ELSE Some(st.now),
                        !.updatedAt = IF IsSome(@) THEN @ ELSE Some(st.now)]
             res == addRule(rule, st)
         IN IF res.ret.ok THEN Respond(NotifiedAgain(res), OK)
            ELSE Respond(res, INTERNAL_SERVER_ERROR)

\* {...currentRule, ...updatedRule, id: ruleId}
completeRule(currentRule, updatedRule, ruleId) ==
    [id |-> ruleId,
     limit |-> updatedRule.limit,
     priority |-> IF IsSome(updatedRule.priority) THEN updatedRule.priority
                  ELSE currentRule.priority,
     createdAt |-> IF IsSome(updatedRule.createdAt) THEN updatedRule.createdAt
                   ELSE currentRule.createdAt,
     updatedAt |-> IF IsSome(updatedRule.updatedAt) THEN updatedRule.updatedAt
                   ELSE currentRule.updatedAt]

\* The operation behind PUT /rules/<ruleId>: 400 for a body that fails the
\* structure check, 404 when getRule finds nothing or updateRule throws
\* 'Rule not found', 500 for every other error.
putUpdateRule(ruleId, body, st) ==
    IF ~isValidRuleStructure(body)
    THEN Respond(Failed(st, "updateRule", "Invalid rule structure"), BAD_REQUEST)
    ELSE LET got == getRule(ruleId, st) IN
         IF ~IsSome(got.value)
         THEN Respond(Failed(got.st, "updateRule", "Rule not found"), NOT_FOUND)
         ELSE LET res == updateRule(ruleId,
                                    completeRule(Val(got.value), Val(body), ruleId),
                                    got.st)
              IN IF res.ret.ok THEN Respond(NotifiedAgain(res), OK)
                 ELSE IF res.ret.error = "Rule not found"
                 THEN Respond(res, NOT_FOUND)
                 ELSE Respond(res, INTERNAL_SERVER_ERROR)

\* The operation behind PUT /config/reorder: every error, its own and those
\* reorderRules throws, is answered with 400.
putReorderRules(body, st) ==
    IF ~isValidRuleStructure(body)
    THEN Respond(Failed(st, "reorderRules", "Invalid rule structure"), BAD_REQUEST)
    ELSE LET res == reorderRules(Val(body), st)
         IN IF res.ret.ok THEN Respond(NotifiedAgain(res), OK)
            ELSE Respond(res, BAD_REQUEST)

\* The operation behind PUT /rules/<ruleId>/revert: revertRule returns the
\* rule or throws, and every error it throws is answered with 500.
putRevertRule(ruleId, targetVersion, st) ==
    LET res == revertRule(ruleId, targetVersion, st)
    IN IF res.ret.ok THEN Respond(NotifiedAgain(res), OK)
       ELSE Respond(res, INTERNAL_SERVER_ERROR)

\* The operation behind DELETE /rules/<ruleId>: deleteRule returns false for
\* a rule that is not stored, which is answered with 404 'Rule not found'.
deleteRuleOperation(ruleId, st) ==
    LET res == deleteRule(ruleId, st)
    IN IF res.ret.ok THEN Respond(NotifiedAgain(res), OK)
       ELSE Respond([res EXCEPT !.ret.error = "Rule not found"], NOT_FOUND)

\* ---------------------------------------------------------------- migration
\* The puts of the migration loop: each legacy rule under rule_<rule.id>, in
\* the order of the legacy list.
RECURSIVE migratePuts(_, _)
migratePuts(rs, oldRules) ==
    IF oldRules = <<>> THEN rs
    ELSE migratePuts([rs EXCEPT ![Head(oldRules).id] = Some(Head(oldRules))],
                     Tail(oldRules))

\* oldRules.map(rule => rule.id)
IdsOf(oldRules) == [i \in 1..Len(oldRules) |-> oldRules[i].id]

\* migrateFromOldFormat() without the look at rule_ids: the legacy blob is
\* imported at every call.
migrateAgain(st, leg, indexSeen) ==
    IF leg.kind = "absent"
    THEN [st |-> [st EXCEPT !.ruleIds = Some(<<>>)],
          ret |-> Ret(st, "migrate", TRUE, "", FALSE, 0, 0)]
    ELSE IF leg.kind = "notArray"
    THEN [st |-> st, ret |-> Ret(st, "migrate", FALSE, "", FALSE, 0, 0)]
    ELSE [st |-> [st EXCEPT !.rules = migratePuts(@, leg.rules),
                            !.ruleIds = Some(IdsOf(leg.rules))],
          ret |-> Ret(st, "migrate", TRUE, "", FALSE, 0, 0)]

\* migrateFromOldFormat() that takes a legacy blob that is not an array for
\* no blob at all and starts an empty index.
migrateBlobAsAbsent(st, leg, indexSeen) ==
    IF IsSome(indexSeen)
    THEN [st |-> st, ret |-> Ret(st, "migrate", TRUE, "", FALSE, 0, 0)]
    ELSE IF leg.kind \in {"absent", "notArray"}
    THEN [st |-> [st EXCEPT !.ruleIds = Some(<<>>)],
          ret |-> Ret(st, "migrate", TRUE, "", FALSE, 0, 0)]
    ELSE [st |-> [st EXCEPT !.rules = migratePuts(@, leg.rules),
                            !.ruleIds = Some(IdsOf(leg.rules))],
          ret |-> Ret(st, "migrate", TRUE, "", FALSE, 0, 0)]

\* migrateFromOldFormat() run without interruption.  indexSeen is what
\* get(rule_ids) returned; the copy of versions_<id> onto itself writes back
\* what it has just read.
migrateFromOldFormat(st, leg, indexSeen) ==
    IF IsSome(indexSeen)
    THEN [st |-> st, ret |-> Ret(st, "migrate", TRUE, "", FALSE, 0, 0)]
    ELSE IF leg.kind = "absent"
    THEN [st |-> [st EXCEPT !.ruleIds = Some(<<>>)],
          ret |-> Ret(st, "migrate", TRUE, "", FALSE, 0, 0)]
    ELSE IF leg.kind = "notArray"
    THEN [st |-> st, ret |-> Ret(st, "migrate", FALSE, "", FALSE, 0, 0)]
    ELSE [st |-> [st EXCEPT !.rules = migratePuts(@, leg.rules),
                            !.ruleIds = Some(IdsOf(leg.rules))],
          ret |-> Ret(st, "migrate", TRUE, "", FALSE, 0, 0)]

\* The histories the migration copies: those of the legacy rules that have a
\* stored versions_<id>.
CopiedHistories(leg, vs) ==
    IF leg.kind = "array" THEN {id \in Range(IdsOf(leg.rules)) : vs[id] /= <<>>}
    ELSE {}

\* ------------------------------------------------------------ initial state
\* A rule of the legacy blob: no priority and no timestamps; its limit tells
\* the entries of the list apart.
LegacyRule(id, i) == MkRule(id, i, None, None, None)

\* A legacy history: the old store pushed new versions at the end, so it is
\* oldest-first; its entries have neither versionId nor rule, and were written
\* before the service started (timestamps below 0).
LegacyHistory(n) == [i \in 1..n |-> MkVersion(None, i - n - 1, None)]

Fresh == [kind |-> "absent", rules |-> <<>>]

\* The legacy lists: none, one rule, two rules, the same id twice (the old
\* POST handler pushed a rule without looking for its id in the list).
LegacyLists == {<<>>, <<"a">>, <<"a", "b">>, <<"a", "a">>}

LegacyStores ==
    {Fresh, [kind |-> "notArray", rules |-> <<>>]}
    \cup {[kind |-> "array",
           rules |-> [i \in 1..Len(ids) |-> LegacyRule(ids[i], i)]] :
          ids \in LegacyLists}

\* The states of env.CONFIG_QUEUE.
Sinks == {"ok", "fails", "absent"}

\* The state after construction, for the given legacy stores and queues.
Start(stores, sinks) ==
    /\ legacy \in stores
    /\ sink \in sinks
    /\ ruleIds = None
    /\ rules = [id \in Ids |-> None]
    /\ versions = [id \in Ids |->
                     IF legacy.kind = "array" /\ id \in Range(IdsOf(legacy.rules))
                     THEN LegacyHistory(MaxLegacyVersions) ELSE <<>>]
    /\ cachedConfig = None
    /\ lastConfigFetch = 0
    /\ now = 0
    /\ nextVersionId = 1
    /\ mig = [pc |-> "boot", indexSeen |-> None, left |-> {},
              read |-> [id \in Ids |-> <<>>]]
    /\ served = 0
    /\ ret = [op |-> "init", ok |-> TRUE, error |-> "", fromCache |-> FALSE,
              age |-> 0, sent |-> 0, status |-> 0, heldAtSend |-> FALSE,
              dropped |-> -1]

\* The queue is bound and takes every message.
Init == Start(LegacyStores, {"ok"})

\* ------------------------------------------------------------------ actions
\* A request is served once the instance is constructed.
Serving == mig.pc /= "boot" /\ served < MaxRequests

\* An operation's result becomes the new state.
Apply(res) ==
    /\ served' = served + 1
    /\ ruleIds' = res.st.ruleIds
    /\ rules' = res.st.rules
    /\ versions' = res.st.versions
    /\ cachedConfig' = res.st.cachedConfig
    /\ lastConfigFetch' = res.st.lastConfigFetch
    /\ nextVersionId' = res.st.nextVersionId
    /\ ret' = res.ret
    /\ UNCHANGED <<legacy, now, mig, sink>>

\* The rules a request carries: with a valid rateLimit.limit the priority is
\* left out, given, or a number that is not finite; rateLimit.limit 0 fails
\* validateRateLimit.
RequestRules ==
    {MkRule(id, 1, priority, None, None) :
        id \in Ids, priority \in {None, Some(0), Some(NON_FINITE)}}
    \cup {MkRule(id, 0, None, None, None) : id \in Ids}

GetConfig ==
    /\ Serving
    /\ Apply(getConfig(St))

GetRule ==
    /\ Serving
    /\ \E id \in Ids : Apply(getRule(id, St))

AddRule ==
    /\ Serving
    /\ \E rule \in RequestRules : Apply(addRule(rule, St))

\* The bodies of an update: those of RequestRules, and bodies that carry
\* dates of their own (a valid date before the clock's start).
UpdateBodies ==
    RequestRules \cup {MkRule(id, 1, None, Some(-1), Some(-1)) : id \in Ids}

UpdateRule ==
    /\ Serving
    /\ \E id \in Ids, rule \in UpdateBodies : Apply(updateRule(id, rule, St))

DeleteRule ==
    /\ Serving
    /\ \E id \in Ids : Apply(deleteRule(id, St))

ReorderRules ==
    /\ Serving
    /\ \E orderedIds \in SeqsUpTo(Ids, MaxOrderLen) :
         Apply(reorderRules(orderedIds, St))

\* The version id is one that was handed out, or one that never was.
RevertRule ==
    /\ Serving
    /\ \E id \in Ids, versionId \in 1..nextVersionId :
         Apply(revertRule(id, versionId, St))

\* A later call of the public migrateFromOldFormat().
Migrate ==
    /\ Serving
    /\ Apply(migrateFromOldFormat(St, legacy, ruleIds))

Tick ==
    /\ mig.pc /= "boot"
    /\ now < MaxNow
    /\ now' = now + 1
    /\ UNCHANGED <<storage, cache, nextVersionId, mig, sink, served, ret>>

\* new ConfigStorage(state, env) with the migration run to its end before the
\* first request is served.
Boot ==
    /\ mig.pc = "boot"
    /\ LET res == migrateFromOldFormat(St, legacy, ruleIds) IN
         /\ ruleIds' = res.st.ruleIds
         /\ rules' = res.st.rules
         /\ ret' = res.ret
    /\ mig' = [mig EXCEPT !.pc = "ready"]
    /\ UNCHANGED <<versions, legacy, cache, now, nextVersionId, sink, served>>

Next ==
    \/ Boot
    \/ GetConfig
    \/ GetRule
    \/ AddRule
    \/ UpdateRule
    \/ DeleteRule
    \/ ReorderRules
    \/ RevertRule
    \/ Migrate
    \/ Tick

Spec == Init /\ [][Next]_vars

\* ------------------------------------------------- the migration, unawaited
\* The constructor calls runMigration() and does not await it
\* (this.runMigration().catch(...)): migrateFromOldFormat() gives way at each
\* await of a storage call, and handleRequest() does not wait for it.

\* The constructor: migrateFromOldFormat() runs up to its first await, the
\* read of rule_ids.
MigStart ==
    /\ mig.pc = "boot"
    /\ mig' = [mig EXCEPT !.pc = "check", !.indexSeen = ruleIds]
    /\ UNCHANGED <<storage, cache, now, nextVersionId, sink, served, ret>>

\* The continuation: it decides on the index it read, reads the legacy blob,
\* issues the puts of the rules and of rule_ids and the reads of versions_<id>.
MigLegacy ==
    /\ mig.pc = "check"
    /\ LET res == migrateFromOldFormat(St, legacy, mig.indexSeen)
           left == IF IsSome(mig.indexSeen) THEN {}
                   ELSE CopiedHistories(legacy, versions)
       IN /\ ruleIds' = res.st.ruleIds
          /\ rules' = res.st.rules
          /\ mig' = [mig EXCEPT !.pc = IF left = {} THEN "ready" ELSE "copy",
                                !.left = left,
                                !.read = [id \in Ids |->
                                            IF id \in left THEN versions[id]
                                            ELSE <<>>]]
    /\ UNCHANGED <<versions, legacy, cache, now, nextVersionId, sink, served,
                   ret>>

\* The put of one history that was read: put(versions_<id>, versionsStr).
MigCopy ==
    /\ mig.pc = "copy"
    /\ \E id \in mig.left :
         /\ versions' = [versions EXCEPT ![id] = mig.read[id]]
         /\ mig' = [mig EXCEPT !.left = @ \ {id},
                               !.read[id] = <<>>,
                               !.pc = IF mig.left = {id} THEN "ready" ELSE "copy"]
    /\ UNCHANGED <<ruleIds, rules, legacy, cache, now, nextVersionId, sink,
                   served, ret>>

NextCold ==
    \/ MigStart
    \/ MigLegacy
    \/ MigCopy
    \/ GetConfig
    \/ GetRule
    \/ AddRule
    \/ UpdateRule
    \/ DeleteRule
    \/ ReorderRules
    \/ RevertRule
    \/ Migrate
    \/ Tick

SpecCold == Init /\ [][NextCold]_vars

\* ------------------------------------------------------- the GET handler
\* The values of the query parameters page and limit.
QueryValues ==
    {QueryAbsent, QueryText}
    \cup {QueryInt(n) : n \in {-1, 0, 1, 2, 3, MAX_PAGE_SIZE, MAX_PAGE_SIZE + 1}}

HandleGetConfig ==
    /\ Serving
    /\ \E page \in QueryValues, limit \in QueryValues :
         Apply(handleGetConfig(page, limit, St))

HandleGetVersions ==
    /\ Serving
    /\ \E id \in Ids, page \in QueryValues, limit \in QueryValues :
         Apply(handleGetVersions(id, page, limit, St))

NextGet ==
    \/ Boot
    \/ GetConfig
    \/ GetRule
    \/ AddRule
    \/ UpdateRule
    \/ DeleteRule
    \/ ReorderRules
    \/ RevertRule
    \/ Migrate
    \/ Tick
    \/ HandleGetConfig
    \/ HandleGetVersions

SpecGet == Init /\ [][NextGet]_vars

\* ------------------------------------------------- rules of any priority
\* validateRule asks of priority only that it is a number: priorities below,
\* at and above the value that stands in for a missing one.
Priorities == {-1, 0, MISSING_PRIORITY, MISSING_PRIORITY + 2}

PrioritizedRules ==
    {MkRule(id, 1, Some(p), None, None) : id \in Ids, p \in Priorities}

AddRulePrioritized ==
    /\ Serving
    /\ \E rule \in RequestRules \cup PrioritizedRules : Apply(addRule(rule, St))

NextSort ==
    \/ Boot
    \/ GetConfig
    \/ GetRule
    \/ AddRulePrioritized
    \/ UpdateRule
    \/ DeleteRule
    \/ ReorderRules
    \/ RevertRule
    \/ Migrate
    \/ Tick

SpecSort == Init /\ [][NextSort]_vars

\* ------------------------------------------------------ requests over HTTP
\* The bodies of POST /config and PUT /rules/<id>: JSON carries no number
\* that is not finite.
RestBodies ==
    {None} \cup {Some(rule) : rule \in {r \in UpdateBodies :
                                           r.priority /= Some(NON_FINITE)}}

HandlePost ==
    /\ Serving
    /\ \E body \in RestBodies : Apply(handlePost(body, St))

HandlePutUpdate ==
    /\ Serving
    /\ \E id \in Ids, body \in RestBodies : Apply(putUpdateRule(id, body, St))

HandlePutReorder ==
    /\ Serving
    /\ \E body \in {None} \cup {Some(ids) : ids \in SeqsUpTo(Ids, MaxOrderLen)} :
         Apply(putReorderRules(body, St))

HandlePutRevert ==
    /\ Serving
    /\ \E id \in Ids, targetVersion \in 1..nextVersionId :
         Apply(putRevertRule(id, targetVersion, St))

HandleDelete ==
    /\ Serving
    /\ \E id \in Ids : Apply(deleteRuleOperation(id, St))

NextRest ==
    \/ Boot
    \/ HandleGetConfig
    \/ HandlePost
    \/ HandlePutUpdate
    \/ HandlePutReorder
    \/ HandlePutRevert
    \/ HandleDelete
    \/ Tick

SpecRest == Init /\ [][NextRest]_vars

\* ------------------------------------------------- a storage that can fail
\* The number of the storage call that rejects.
FailingCalls == 1..2

AddRuleStorageFails ==
    /\ Serving
    /\ \E rule \in RequestRules, k \in FailingCalls :
         Apply(addRuleStorageFails(rule, k, St))

UpdateRuleStorageFails ==
    /\ Serving
    /\ \E id \in Ids, rule \in UpdateBodies :
         Apply(updateRuleStorageFails(id, rule, St))

DeleteRuleStorageFails ==
    /\ Serving
    /\ \E id \in Ids, k \in FailingCalls :
         Apply(deleteRuleStorageFails(id, k, St))

ReorderRulesStorageFails ==
    /\ Serving
    /\ \E orderedIds \in SeqsUpTo(Ids, MaxOrderLen), k \in FailingCalls :
         Apply(reorderRulesStorageFails(orderedIds, k, St))

RevertRuleStorageFails ==
    /\ Serving
    /\ \E id \in Ids, versionId \in 1..nextVersionId, k \in FailingCalls :
         Apply(revertRuleStorageFails(id, versionId, k, St))

NextFaulty ==
    \/ Boot
    \/ GetConfig
    \/ GetRule
    \/ AddRule
    \/ UpdateRule
    \/ DeleteRule
    \/ ReorderRules
    \/ RevertRule
    \/ Migrate
    \/ Tick
    \/ AddRuleStorageFails
    \/ UpdateRuleStorageFails
    \/ DeleteRuleStorageFails
    \/ ReorderRulesStorageFails
    \/ RevertRuleStorageFails

SpecFaulty == Init /\ [][NextFaulty]_vars

\* ------------------------------------------------- listing a store in pages
\* A store migrated from the legacy list [a, b], listed whole and in pages
\* while rules are added, deleted and reordered.
InitPage ==
    Start({[kind |-> "array", rules |-> <<LegacyRule("a", 1), LegacyRule("b", 2)>>]},
          {"ok"})

NextPage ==
    \/ Boot
    \/ GetConfig
    \/ HandleGetConfig
    \/ AddRule
    \/ DeleteRule
    \/ ReorderRules
    \/ Tick

SpecPage == InitPage /\ [][NextPage]_vars

\* ------------------------------------------ an archive that cannot be written
AddRuleArchiveFails ==
    /\ Serving
    /\ \E rule \in RequestRules : Apply(addRule(rule, ArchiveFailing(St)))

UpdateRuleArchiveFails ==
    /\ Serving
    /\ \E id \in Ids, rule \in UpdateBodies :
         Apply(updateRule(id, rule, ArchiveFailing(St)))

DeleteRuleArchiveFails ==
    /\ Serving
    /\ \E id \in Ids : Apply(deleteRule(id, ArchiveFailing(St)))

RevertRuleArchiveFails ==
    /\ Serving
    /\ \E id \in Ids, versionId \in 1..nextVersionId :
         Apply(revertRule(id, versionId, ArchiveFailing(St)))

NextArchive ==
    \/ Boot
    \/ GetConfig
    \/ AddRule
    \/ UpdateRule
    \/ DeleteRule
    \/ RevertRule
    \/ Tick
    \/ AddRuleArchiveFails
    \/ UpdateRuleArchiveFails
    \/ DeleteRuleArchiveFails
    \/ RevertRuleArchiveFails

\* A store migrated from the legacy list [a], with the history of a.
InitArchive == Start({[kind |-> "array", rules |-> <<LegacyRule("a", 1)>>]}, {"ok"})

SpecArchive == InitArchive /\ [][NextArchive]_vars

\* Every operation of the service on the store migrated from the legacy list
\* [a], whose history was written by the legacy service.
SpecHistory == InitArchive /\ [][Next]_vars

\* ------------------------------------------------ the validators on their own
\* The operators a condition may carry: long forms, short forms, and none
\* that is known.
Operators ==
    {"equals", "matches", "exists", "eq", "ne", "gt", "ge", "lt", "le", "unknown"}

RawConditions ==
    {RawCondition("null", "", "absent")}
    \cup {RawCondition("object", operator, value) :
            operator \in Operators, value \in {"absent", "text", "(unclosed"}}

RawMatches ==
    {RawMatch("null", "notArray", <<>>), RawMatch("object", "notArray", <<>>),
     RawMatch("object", "array", <<>>)}
    \cup {RawMatch("object", "array", <<c>>) : c \in RawConditions}

RawRules ==
    {RawRule("null", "absent", "absent", RawMatch("null", "notArray", <<>>), "absent"),
     RawRule("string", "absent", "absent", RawMatch("null", "notArray", <<>>), "absent")}
    \cup {RawRule("object", id, rateLimit, match, elseIfActions) :
            id \in Ids \cup {"absent"}, rateLimit \in {"absent", "zero", "ok"},
            match \in RawMatches, elseIfActions \in {"absent", "array"}}

\* The elements of an array handed to validateRules.
RawElements ==
    {r \in RawRules :
        \/ r.kind /= "object"
        \/ /\ r.rateLimit = "ok"
           /\ r.elseIfActions = "array"
           /\ r.initialMatch = RawMatch("object", "array", <<>>)}

RawArrays ==
    {[kind |-> "notArray", items |-> <<>>]}
    \cup {[kind |-> "array", items |-> items] : items \in SeqsUpTo(RawElements, 2)}

\* A call of a validator: ret takes the value it was given and its result.
ValidateRule ==
    /\ \E rule \in RawRules :
         ret' = [op |-> "validateRule", input |-> rule,
                 result |-> validateRuleResult(rule, ParseIds(ruleIds), NoId)]
    /\ UNCHANGED <<storage, cache, now, nextVersionId, mig, sink, served>>

ValidateRules ==
    /\ \E list \in RawArrays :
         ret' = [op |-> "validateRules", input |-> list,
                 result |-> validateRulesResult(list)]
    /\ UNCHANGED <<storage, cache, now, nextVersionId, mig, sink, served>>

NextValidate ==
    \/ ValidateRule
    \/ ValidateRules

\* The validators read no storage: one store will do.
InitValidate == Start({Fresh}, {"ok"})

SpecValidate == InitValidate /\ [][NextValidate]_vars

\* --------------------------------------------- the queue failing or missing
\* The same service with a queue that rejects every send() or with no queue
\* bound, on a store migrated from two legacy rules.
InitSink ==
    Start({[kind |-> "array",
            rules |-> <<LegacyRule("a", 1), LegacyRule("b", 2)>>]},
          Sinks \ {"ok"})

SpecSink == InitSink /\ [][Next]_vars

\* ------------------------------------------------------------------- claims
NoRepeats(s) == \A i, j \in 1..Len(s) : i /= j => s[i] /= s[j]

\* C1: rule ids are unique within the live set: the index rule_ids holds no
\* id twice and no two rules returned by getConfig() carry the same id
\* (stated for a store that is empty or migrated from a legacy list without
\* repeated ids).
C1_LiveIdsUnique ==
    NoRepeats(IdsOf(legacy.rules)) =>
        /\ NoRepeats(ParseIds(ruleIds))
        /\ NoRepeats(IdsOf(StoredConfig(ruleIds, rules)))

\* A served request, whose result is in ret'.
Served(op) == served' = served + 1 /\ ret'.op = op

\* C2: the getConfig() that follows a successful mutating call is not served
\* from the cache; it returns the rule set as stored.
C2_CacheCoherence ==
    [][(Served("getConfig") /\ ret.op \in Mutating /\ ret.ok)
        => /\ ~ret'.fromCache
           /\ cachedConfig' = Some(StoredConfig(ruleIds', rules'))]_vars

\* C2 happens: a getConfig() right after a successful mutating call that had
\* found a snapshot cached, within the TTL of that snapshot, read storage.
C2_Witness ==
    /\ ret.op = "getConfig"
    /\ ret.dropped >= 0
    /\ now - ret.dropped < CACHE_TTL
    /\ ~ret.fromCache
    /\ Val(cachedConfig) /= <<>>

\* The order of archival: the uuids are handed out in order; a legacy entry
\* has none and is older than the service (its timestamp is below 0).
Age(v) == IF IsSome(v.versionId) THEN Val(v.versionId) ELSE v.timestamp

\* C3: a history holds at most VERSION_LIMIT entries, the most recently
\* archived ones, newest first: an archive puts the new snapshot first, keeps
\* the entries that stay in their order, and evicts only entries older than
\* every entry it keeps.
C3_ArchiveKeepsNewest ==
    [][\A id \in Ids :
         versions'[id] /= versions[id] =>
           LET old == versions[id]
               new == versions'[id]
           IN /\ Len(new) <= VERSION_LIMIT
              /\ Len(new) >= 1
              /\ \A i \in 1..Len(old) : Age(new[1]) > Age(old[i])
              /\ \A k \in 2..Len(new) : new[k] = old[k - 1]
              /\ \A i \in 1..Len(old) :
                   (\A k \in 1..Len(new) : new[k] /= old[i])
                     => \A k \in 1..Len(new) : Age(old[i]) < Age(new[k])]_vars

\* A successful reorderRules(orderedIds) step.
Reordered(orderedIds) ==
    /\ Serving
    /\ reorderRules(orderedIds, St).ret.ok
    /\ Apply(reorderRules(orderedIds, St))

\* C4: after a successful reorderRules(orderedIds) over n live rules the
\* priorities of the live rules are exactly 0..n-1, without repeats, and the
\* rule with id orderedIds[i] has priority i (0-based) (stated for an index
\* without repeats).
C4_ReorderIsBijection ==
    [][\A orderedIds \in SeqsUpTo(Ids, MaxOrderLen) :
         (Reordered(orderedIds) /\ NoRepeats(ParseIds(ruleIds))) =>
           LET live == FetchRules(rules', ParseIds(ruleIds'))
               n == Len(live)
           IN /\ {live[i].priority : i \in 1..n} = {Some(p) : p \in 0..(n - 1)}
              /\ NoRepeats([i \in 1..n |-> live[i].priority])
              /\ \A i \in 1..Len(orderedIds) :
                   /\ IsSome(rules'[orderedIds[i]])
                   /\ Val(rules'[orderedIds[i]]).priority = Some(i - 1)]_vars

\* C5: reorderRules(orderedIds) succeeds only if orderedIds holds exactly the
\* ids of the index, each once (stated for an index without repeats).
C5_ReorderNeedsExactIdSet ==
    [][\A orderedIds \in SeqsUpTo(Ids, MaxOrderLen) :
         (Reordered(orderedIds) /\ NoRepeats(ParseIds(ruleIds))) =>
           /\ Range(orderedIds) = Range(ParseIds(ruleIds))
           /\ NoRepeats(orderedIds)]_vars

\* C6: a reorderRules call that fails writes no storage key, leaves the cache
\* as it is and sends no notification.
C6_FailedReorderWritesNothing ==
    [][(Served("reorderRules") /\ ~ret'.ok)
        => /\ UNCHANGED <<storage, cache>>
           /\ ret'.sent = 0]_vars

\* C6 happens: a reorderRules call over an index of two ids failed for a list
\* that names only known ids (it omits one), with a snapshot cached.
C6_Witness ==
    /\ ret.op = "reorderRules"
    /\ ~ret.ok
    /\ ret.error = "All rules must be included"
    /\ Len(ParseIds(ruleIds)) = 2
    /\ IsSome(cachedConfig)

\* C7: in every reachable state, updateRule(id, newRule) on an id with no
\* stored rule fails with "Rule not found" and writes no storage key: the
\* index, the rule keys and the histories it leaves are those it found.
C7_UpdateOfMissingRuleWritesNothing ==
    \A id \in Ids, rule \in RequestRules :
        ~IsSome(rules[id]) =>
            LET res == updateRule(id, rule, St)
            IN /\ ~res.ret.ok
               /\ res.ret.error = "Rule not found"
               /\ res.ret.sent = 0
               /\ res.st.ruleIds = ruleIds
               /\ res.st.rules = rules
               /\ res.st.versions = versions

\* C7 happens: an updateRule call failed with "Rule not found" in a store that
\* holds another rule.
C7_Witness ==
    /\ ret.op = "updateRule"
    /\ ret.error = "Rule not found"
    /\ \E id \in Ids : IsSome(rules[id])
    /\ \E id \in Ids : ~IsSome(rules[id])

\* C8: the rule stored under rule_<k> has id k.
C8_RuleIdImmutable ==
    \A k \in Ids : IsSome(rules[k]) => Val(rules[k]).id = k

\* C9: data returned from the whole-set cache is younger than CACHE_TTL.
C9_CacheNeverServedPastTtl ==
    ret.fromCache => ret.age < CACHE_TTL

\* C10: the migration the constructor started is over before a request is
\* served, and it overwrites no index an operation has written.
C10_MigrationRunsFirst ==
    [][/\ served' /= served => mig.pc = "ready"
       /\ (mig' /= mig /\ IsSome(ruleIds)) => ruleIds' = ruleIds]_vars

\* A call of migrateFromOldFormat(): the one of the constructor or a later one.
MigrationStep ==
    /\ ret'.op = "migrate"
    /\ (served' = served + 1 \/ mig'.pc /= mig.pc)

\* C11: migrateFromOldFormat() is idempotent: once rule_ids exists a call
\* returns success and writes nothing, and a second call right after any call
\* leaves storage as the first call left it.
C11_MigrationIdempotent ==
    [][MigrationStep =>
         /\ IsSome(ruleIds) => (ret'.ok /\ UNCHANGED storage)
         /\ LET again == migrateFromOldFormat(St', legacy', ruleIds')
            IN /\ again.st.ruleIds = ruleIds'
               /\ again.st.rules = rules'
               /\ again.st.versions = versions']_vars

\* C11 happens: a later call of migrateFromOldFormat() on a store whose
\* legacy rules were all deleted succeeded and imported nothing.
C11_Witness ==
    /\ ret.op = "migrate"
    /\ ret.ok
    /\ served > 0
    /\ legacy.kind = "array"
    /\ legacy.rules /= <<>>
    /\ ruleIds = Some(<<>>)
    /\ \A id \in Ids : ~IsSome(rules[id])

\* Equal in every field but the stamped createdAt and updatedAt.
SameButStamps(x, r) ==
    /\ x.id = r.id
    /\ x.limit = r.limit
    /\ x.priority = r.priority

\* C12: for a rule that passes validation against the index, addRule(rule)
\* followed by getRule(rule.id) returns a rule equal to it in every field but
\* createdAt and updatedAt.
C12_AddThenGetRoundTrip ==
    [][(Served("addRule") /\ ret'.ok) =>
         \A rule \in RequestRules :
           (/\ Serving
            /\ validateRule(rule, ParseIds(ruleIds), NoId)
            /\ Apply(addRule(rule, St)))
             => LET got == getRule(rule.id, St').value
                IN /\ IsSome(got)
                   /\ SameButStamps(Val(got), rule)]_vars

\* C13: in every reachable state, addRule(rule) with an id that is in the
\* index, or with a field that fails its check, fails with a validation error
\* and writes nothing: index, rule keys and histories are as before and no
\* notification is sent.
C13_InvalidAddWritesNothing ==
    \A rule \in RequestRules :
        (Contains(ParseIds(ruleIds), rule.id) \/ rule.limit <= 0) =>
            LET res == addRule(rule, St)
            IN /\ ~res.ret.ok
               /\ res.ret.error = "Invalid rule"
               /\ res.ret.sent = 0
               /\ res.st.ruleIds = ruleIds
               /\ res.st.rules = rules
               /\ res.st.versions = versions

\* C13 happens: an addRule call failed with a validation error in a store
\* whose index holds every id, so the id of the rule was in the index.
C13_Witness ==
    /\ ret.op = "addRule"
    /\ ~ret.ok
    /\ ret.error = "Invalid rule"
    /\ Range(ParseIds(ruleIds)) = Ids

\* C14: a successful updateRule leaves the createdAt of the rule it wrote as
\* it was stored before the call, whatever the body carries, and stamps
\* updatedAt with the time of the call.
C14_CreatedAtSurvivesUpdate ==
    [][(Served("updateRule") /\ ret'.ok) =>
         \A id \in Ids :
           (IsSome(rules[id]) /\ rules'[id] /= rules[id]) =>
             /\ IsSome(rules'[id])
             /\ Val(rules'[id]).createdAt = Val(rules[id]).createdAt
             /\ Val(rules'[id]).updatedAt = Some(now)]_vars

\* C14 happens: an updateRule call succeeded on a rule created at time 0 (no
\* body of an update carries that createdAt) and stamped a later updatedAt.
C14_Witness ==
    /\ ret.op = "updateRule"
    /\ ret.ok
    /\ \E id \in Ids :
         /\ IsSome(rules[id])
         /\ Val(rules[id]).createdAt = Some(0)
         /\ Val(rules[id]).updatedAt = Some(now)
         /\ now > 0

\* C15: a successful deleteRule(id) removes id from the index and deletes
\* rule_<id>, keeps versions_<id> with a snapshot of the deleted rule as its
\* first entry; afterwards getRule(id) finds nothing and getConfig() lists no
\* rule with that id.
C15_DeleteRemovesRuleKeepsHistory ==
    [][(Served("deleteRule") /\ ret'.ok) =>
         \A id \in Ids :
           (Serving /\ IsSome(rules[id]) /\ Apply(deleteRule(id, St))) =>
             LET listed == Val(getConfig(St').st.cachedConfig)
             IN /\ ~Contains(ParseIds(ruleIds'), id)
                /\ ~IsSome(rules'[id])
                /\ versions'[id] /= <<>>
                /\ versions'[id][1].rule = rules[id]
                /\ ~IsSome(getRule(id, St').value)
                /\ \A i \in 1..Len(listed) : listed[i].id /= id]_vars

\* C16: in every reachable state, deleteRule(id) on an id with no stored rule
\* returns false without an error and changes nothing: no key is put or
\* deleted, the cache is kept and no notification is sent.
C16_DeleteOfMissingRuleIsNoOp ==
    \A id \in Ids :
        ~IsSome(rules[id]) =>
            LET res == deleteRule(id, St)
            IN /\ ~res.ret.ok
               /\ res.ret.error = ""
               /\ res.ret.sent = 0
               /\ res.st.ruleIds = ruleIds
               /\ res.st.rules = rules
               /\ res.st.versions = versions
               /\ res.st.cachedConfig = cachedConfig
               /\ res.st.lastConfigFetch = lastConfigFetch

\* C16 happens: a deleteRule call returned false in a store that holds a rule
\* and a cached snapshot of it.
C16_Witness ==
    /\ ret.op = "deleteRule"
    /\ ~ret.ok
    /\ ret.error = ""
    /\ IsSome(cachedConfig)
    /\ Val(cachedConfig) /= <<>>
    /\ \E id \in Ids : ~IsSome(rules[id])

\* C17: in every reachable state, revertRule(id, versionId) with a versionId
\* that is not in the history of id fails with "Version not found", whether
\* or not the rule is live, and writes nothing: index, rule keys and
\* histories are as before and no notification is sent.
C17_RevertToUnknownVersionWritesNothing ==
    \A id \in Ids, versionId \in 1..nextVersionId :
        ~IsSome(FindVersion(versions[id], versionId)) =>
            LET res == revertRule(id, versionId, St)
            IN /\ ~res.ret.ok
               /\ res.ret.error = "Version not found"
               /\ res.ret.sent = 0
               /\ res.st.ruleIds = ruleIds
               /\ res.st.rules = rules
               /\ res.st.versions = versions

\* C17 happens: a revertRule call failed with "Version not found" in a store
\* where a live rule and a deleted rule both have archived snapshots.
C17_Witness ==
    /\ ret.op = "revertRule"
    /\ ret.error = "Version not found"
    /\ \E id \in Ids :
         /\ IsSome(rules[id])
         /\ versions[id] /= <<>>
         /\ IsSome(versions[id][1].versionId)
    /\ \E id \in Ids :
         /\ ~IsSome(rules[id])
         /\ versions[id] /= <<>>
         /\ IsSome(versions[id][1].versionId)

\* The number of times id is in the index.
TimesInIndex(idsKey, id) ==
    Cardinality({i \in 1..Len(ParseIds(idsKey)) : ParseIds(idsKey)[i] = id})

\* C18: revertRule(id, versionId) on a deleted rule, with a versionId of its
\* history, stores the archived snapshot as the live rule with a fresh
\* updatedAt, and id is then in the index exactly once; and reverting to the
\* snapshot that deleteRule(id) took restores the rule as it was before the
\* deletion, so that getRule(id) finds it again.
C18_RevertRestoresDeletedRule ==
    [][/\ (Served("revertRule") /\ ret'.ok) =>
            \A id \in Ids, versionId \in 1..nextVersionId :
              (/\ Serving
               /\ ~IsSome(rules[id])
               /\ IsSome(FindVersion(versions[id], versionId))
               /\ Apply(revertRule(id, versionId, St)))
                => LET version == Val(FindVersion(versions[id], versionId))
                   IN /\ rules'[id] =
                           Some([Val(version.rule) EXCEPT !.updatedAt = Some(now)])
                      /\ TimesInIndex(ruleIds', id) = 1
                      /\ getRule(id, St').value = rules'[id]
       /\ (Served("deleteRule") /\ ret'.ok) =>
            \A id \in Ids :
              (Serving /\ IsSome(rules[id]) /\ Apply(deleteRule(id, St)))
                => LET res == revertRule(id, nextVersionId, St')
                   IN /\ res.ret.ok
                      /\ res.st.rules[id] =
                           Some([Val(rules[id]) EXCEPT !.updatedAt = Some(now)])
                      /\ TimesInIndex(res.st.ruleIds, id) = 1
                      /\ IsSome(getRule(id, res.st).value)]_vars

\* C19: with a legacy blob that is not an array and no index yet,
\* migrateFromOldFormat() returns false and writes no key: the index stays
\* absent and no rule or history key is created.
C19_BadLegacyBlobWritesNothing ==
    [][(MigrationStep /\ legacy.kind = "notArray" /\ ~IsSome(ruleIds)) =>
         /\ ~ret'.ok
         /\ UNCHANGED storage
         /\ ~IsSome(ruleIds')]_vars

\* C19 happens: a call of migrateFromOldFormat() returned false on a store
\* with a legacy blob that is not an array, and the store has no key.
C19_Witness ==
    /\ ret.op = "migrate"
    /\ ~ret.ok
    /\ legacy.kind = "notArray"
    /\ ~IsSome(ruleIds)
    /\ \A id \in Ids : ~IsSome(rules[id]) /\ versions[id] = <<>>

\* C20: every successful mutating call (addRule, updateRule, deleteRule that
\* returns true, reorderRules, revertRule on a live or on a deleted rule)
\* sends a config_update message to the queue.
C20_MutationNotifies ==
    [][(served' = served + 1 /\ ret'.op \in Mutating /\ ret'.ok)
        => ret'.sent >= 1]_vars

\* C20 happens: a revertRule call on a deleted rule succeeded and sent a
\* message (the history holds the one snapshot the deletion took; the revert
\* archived nothing, as it does when there is no live rule).
C20_Witness ==
    /\ ret.op = "revertRule"
    /\ ret.ok
    /\ ret.sent = 1
    /\ served = 2
    /\ nextVersionId = 2

\* The same call with the queue bound and working.
WithQueue(st) == [st EXCEPT !.sink = "ok"]

\* The outcome res of a call is the outcome good of the same call made with a
\* working queue, but for the messages sent: the same keys written, the same
\* result or error, and after a success no cached snapshot.
SameButSent(res, good) ==
    /\ WithQueue(res.st) = good.st
    /\ res.ret.ok = good.ret.ok
    /\ res.ret.error = good.ret.error
    /\ res.ret.sent = 0
    /\ res.ret.ok => (res.st.cachedConfig = None /\ res.st.lastConfigFetch = 0)

\* C21: in every reachable state where a request can be served, with a queue
\* that rejects send() or with no queue bound, each mutating call does what it
\* does with a working queue: it writes the same keys, invalidates the cache
\* and returns the same result; only the message is missing.
C21_SinkFailureNeverFailsMutation ==
    (Serving /\ sink /= "ok") =>
        /\ \A rule \in RequestRules :
             SameButSent(addRule(rule, St), addRule(rule, WithQueue(St)))
        /\ \A id \in Ids, rule \in UpdateBodies :
             SameButSent(updateRule(id, rule, St),
                         updateRule(id, rule, WithQueue(St)))
        /\ \A id \in Ids :
             SameButSent(deleteRule(id, St), deleteRule(id, WithQueue(St)))
        /\ \A orderedIds \in SeqsUpTo(Ids, MaxOrderLen) :
             SameButSent(reorderRules(orderedIds, St),
                         reorderRules(orderedIds, WithQueue(St)))
        /\ \A id \in Ids, versionId \in 1..nextVersionId :
             SameButSent(revertRule(id, versionId, St),
                         revertRule(id, versionId, WithQueue(St)))

\* C21 happens: with a queue that rejects send(), a mutating call that found a
\* snapshot cached succeeded, sent nothing and left no snapshot cached.
C21_Witness ==
    /\ sink = "fails"
    /\ ret.op \in Mutating
    /\ ret.ok
    /\ ret.sent = 0
    /\ ret.dropped >= 0
    /\ cachedConfig = None
    /\ \E id \in Ids : IsSome(rules[id])

\* The page a request asks for: 1 when the parameter is absent or no number.
RequestedPage(page) == IF page.kind = "int" THEN page.n ELSE 1

\* The metadata meta of a listing of totalItems items asked for with the query
\* parameters page and limit: the limit within 1..MAX_PAGE_SIZE (the one asked
\* for when that is in the range), the page within 1..(totalPages || 1), the
\* flags from the clamped page.
ClampedMeta(meta, totalItems, page, limit) ==
    /\ meta.pageSize \in 1..MAX_PAGE_SIZE
    /\ (limit.kind = "int" /\ limit.n \in 1..MAX_PAGE_SIZE) => meta.pageSize = limit.n
    /\ meta.totalItems = totalItems
    /\ meta.totalPages = Ceil(totalItems, meta.pageSize)
    /\ meta.currentPage =
         Max(1, Min(RequestedPage(page),
                    IF meta.totalPages = 0 THEN 1 ELSE meta.totalPages))
    /\ meta.hasNextPage = (meta.currentPage < meta.totalPages)
    /\ meta.hasPrevPage = (meta.currentPage > 1)

\* The window of the page: items startIndex..endIndex-1 of the list.
WindowOf(s, meta) ==
    Slice(s, (meta.currentPage - 1) * meta.pageSize,
          Min((meta.currentPage - 1) * meta.pageSize + meta.pageSize, Len(s)))

\* C22: in every reachable state, for every page and limit a request can
\* carry, the paginated rule listing and the paginated version listing report
\* a limit within [1,100], a page within [1, totalPages || 1] with
\* totalPages = ceil(totalItems/limit), the flags hasNextPage = page <
\* totalPages and hasPrevPage = page > 1, and return the window
\* [(page-1)*limit, min(page*limit, totalItems)); for an empty list the window
\* is empty, totalPages is 0, the page is 1 and both flags are false.
C22_PaginationClamps ==
    Serving =>
      \A page \in QueryValues, limit \in QueryValues :
        hasPaginationParams(page, limit) =>
          /\ LET body == handleGetConfig(page, limit, St).value
                 ids == ParseIds(ruleIds)
             IN /\ ClampedMeta(body.pagination, Len(ids), page, limit)
                /\ body.rules =
                     SortByPriority(FetchRules(rules, WindowOf(ids, body.pagination)))
          /\ \A id \in Ids :
               LET body == getRuleVersions(id, Some(validPagination(page, limit)),
                                           St).value
               IN /\ ClampedMeta(body.pagination, Len(versions[id]), page, limit)
                  /\ body.versions = WindowOf(versions[id], body.pagination)

\* Ascending priority, the rules without a priority behind all the others.
InPriorityOrder(rs) ==
    \A i, j \in 1..Len(rs) :
        i < j =>
            /\ (IsSome(rs[i].priority) /\ IsSome(rs[j].priority))
                 => Val(rs[i].priority) <= Val(rs[j].priority)
            /\ ~(~IsSome(rs[i].priority) /\ IsSome(rs[j].priority))

\* C23: what an unpaginated getConfig() returns (and keeps as cachedConfig)
\* lists the live rules by ascending priority, with every rule that has no
\* priority behind every rule that has one, whatever the priorities are.
C23_ConfigSortedByPriority ==
    IsSome(cachedConfig) => InPriorityOrder(Val(cachedConfig))

\* C24: validateRule and validateRules end with a result, never with an
\* exception, whatever they are given: null, a value that is no object,
\* absent or malformed nested fields, an array with a null element, a matches
\* condition whose value is no pattern; and that pattern is reported as an
\* error of the result.
C24_ValidatorsNeverThrow ==
    ret.op \in {"validateRule", "validateRules"} =>
        /\ ~ret.result.threw
        /\ ret.result.valid = (ret.result.errors = {})
        /\ (/\ ret.op = "validateRule"
            /\ ret.input.kind = "object"
            /\ ret.input.initialMatch =
                 RawMatch("object", "array",
                          <<RawCondition("object", "matches", "(unclosed")>>))
             => "Invalid regex pattern" \in ret.result.errors

\* The short forms of the operators.
Aliases == {"eq", "ne", "gt", "ge", "lt", "le"}

\* C25: validateRule reports a rule valid, with no errors, when the rule is
\* valid in every other respect and its condition carries a short-form
\* operator (eq, ne, gt, ge, lt, le) with a value.
C25_AliasOperatorsAccepted ==
    (/\ ret.op = "validateRule"
     /\ ret.input.kind = "object"
     /\ ret.input.id /= "absent"
     /\ ret.input.rateLimit = "ok"
     /\ ret.input.elseIfActions = "array"
     /\ \E operator \in Aliases :
          ret.input.initialMatch =
            RawMatch("object", "array",
                     <<RawCondition("object", operator, "text")>>))
      => /\ ~ret.result.threw
         /\ ret.result.valid
         /\ ret.result.errors = {}

\* The errors of a call by their class.
NotFoundErrors == {"Rule not found", "Version not found"}
ValidationErrors ==
    {"Invalid rule structure", "Invalid rule", "All rules must be included"}

\* C26: the response to a request carries 404 when the rule id or the version
\* id is unknown, 400 when the request fails validation (malformed body,
\* duplicate id, invalid field, incomplete reorder list), 200 on success, and
\* 500 for no failure of these two classes.
C26_RestStatusCodes ==
    ret.status /= 0 =>
        /\ ret.ok => ret.status = OK
        /\ (~ret.ok /\ ret.error \in NotFoundErrors) => ret.status = NOT_FOUND
        /\ (~ret.ok /\ ret.error \in ValidationErrors) => ret.status = BAD_REQUEST
        /\ ret.status = INTERNAL_SERVER_ERROR
             => ret.error \notin NotFoundErrors \cup ValidationErrors

\* C27: a successful mutating call has written its keys and emptied the cache
\* by the time it hands the config_update message to the queue: no snapshot
\* is cached at the moment of the send.
C27_InvalidateBeforeNotify ==
    (ret.op \in Mutating /\ ret.ok /\ ret.sent > 0) => ~ret.heldAtSend

\* The history of id begins with a snapshot, taken by this step, of the rule
\* that was stored under rule_<id> before the step.
ArchivedFirst(id) ==
    /\ versions'[id] /= <<>>
    /\ versions'[id][1].versionId = Some(nextVersionId)
    /\ versions'[id][1].rule = rules[id]
    /\ rules'[id] /= None

\* C28: a successful updateRule(id, ...) or revertRule(id, ...) on a live rule
\* archives the state that was stored before the call: afterwards the first
\* entry of the history of id is a snapshot of the rule as it was live
\* immediately before, not of the state the call wrote.
C28_ArchiveBeforeOverwrite ==
    [][/\ (Served("updateRule") /\ ret'.ok) =>
            \A id \in Ids, rule \in UpdateBodies :
              (/\ Serving
               /\ IsSome(rules[id])
               /\ Apply(updateRule(id, rule, St)))
                => ArchivedFirst(id)
       /\ (Served("revertRule") /\ ret'.ok) =>
            \A id \in Ids, versionId \in 1..nextVersionId :
              (/\ Serving
               /\ IsSome(rules[id])
               /\ Apply(revertRule(id, versionId, St)))
                => ArchivedFirst(id)]_vars

\* C29: after a successful reorderRules, the history of every rule the call
\* rewrote begins with a snapshot, taken by the call, of that rule as it was
\* stored before the reorder.
C29_ReorderArchivesPriorState ==
    [][(Served("reorderRules") /\ ret'.ok) =>
         \A id \in Ids :
           (IsSome(rules[id]) /\ rules'[id] /= rules[id]) =>
             /\ versions'[id] /= versions[id]
             /\ versions'[id] /= <<>>
             /\ versions'[id][1].rule = rules[id]]_vars

\* C30: a mutating call in which a put or a delete rejects fails as a whole:
\* the index and the rule keys are what they were before the call (no id
\* listed without a stored rule, no stored rule dropped from the index, no
\* reorder applied in part), and no notification is sent.
C30_StorageFailureIsAllOrNothing ==
    [][(served' = served + 1 /\ ret'.error = "Storage error") =>
         /\ ~ret'.ok
         /\ ret'.sent = 0
         /\ ruleIds' = ruleIds
         /\ rules' = rules]_vars

\* C31: a successful migration of a legacy rule list L leaves a store that
\* holds the same configuration: rule_ids lists the ids of the rules of L in
\* their order, each rule of L is stored unchanged under rule_<id>, every
\* version history is what it was, and getConfig() returns the rules of L,
\* each as often as L holds it.
Count(s, x) == Cardinality({i \in 1..Len(s) : s[i] = x})

C31_MigrationKeepsConfiguration ==
    [][(mig.pc = "boot" /\ mig'.pc = "ready" /\ legacy.kind = "array" /\ ret'.ok) =>
         LET L == legacy.rules
             config == Val(getConfig(St').st.cachedConfig)
         IN /\ ruleIds' = Some(IdsOf(L))
            /\ \A i \in 1..Len(L) : rules'[L[i].id] = Some(L[i])
            /\ versions' = versions
            /\ Len(config) = Len(L)
            /\ \A i \in 1..Len(L) : Count(config, L[i]) = Count(L, L[i])]_vars

\* C32: the history of an id outlives its rule, and the id can be used again.
\* An addRule with a valid body for an id whose rule was deleted (no stored
\* rule, a history under versions_<id>) succeeds, and the history of the id is
\* then the snapshot of the new rule followed by the entries it held before,
\* as far as VERSION_LIMIT allows.  No served request takes entries from a
\* history but those that fall off its end when a snapshot is put in front.
C32_HistoryOutlivesRule ==
    [][/\ \A rule \in RequestRules :
            (/\ Serving
             /\ validateRateLimit(rule.limit)
             /\ ~IsSome(rules[rule.id])
             /\ ~Contains(ParseIds(ruleIds), rule.id)
             /\ versions[rule.id] /= <<>>
             /\ Apply(addRule(rule, St))) =>
               /\ ret'.ok
               /\ versions'[rule.id][1].rule = rules'[rule.id]
               /\ Tail(versions'[rule.id]) = Take(versions[rule.id], VERSION_LIMIT - 1)
       /\ \A id \in Ids :
            \/ versions'[id] = versions[id]
            \/ /\ versions'[id] /= <<>>
               /\ Tail(versions'[id]) = Take(versions[id], VERSION_LIMIT - 1)]_vars

\* C32 happens: the first request deleted the migrated rule a, the second
\* added a rule with the id a again, and versions_a holds the snapshot of the
\* new rule in front of the snapshot of the deleted one.
C32_Witness ==
    /\ served = 2
    /\ ret.op = "addRule"
    /\ ret.ok
    /\ Len(versions["a"]) = 2
    /\ versions["a"][1].rule = rules["a"]
    /\ versions["a"][1].versionId = Some(2)
    /\ versions["a"][2].versionId = Some(1)
    /\ versions["a"][2].rule = Some(LegacyRule("a", 1))

\* C33: a mutating call during which the put of versions_<id> rejects does
\* what the same call does when the put succeeds, but for the snapshot: it
\* succeeds, index and rule keys are written as they would have been, the
\* cache is invalidated, the notification is sent, and every history is as
\* it was before the call.
LostSnapshotOnly(res, good) ==
    /\ good.ret.ok => res.ret = good.ret
    /\ good.ret.ok => res.st.ruleIds = good.st.ruleIds
    /\ good.ret.ok => res.st.rules = good.st.rules
    /\ good.ret.ok => ~IsSome(res.st.cachedConfig)
    /\ res.st.versions = versions

C33_ArchiveFailureKeepsMutation ==
    Serving =>
      /\ \A rule \in RequestRules :
           LostSnapshotOnly(addRule(rule, ArchiveFailing(St)), addRule(rule, St))
      /\ \A id \in Ids, rule \in UpdateBodies :
           LostSnapshotOnly(updateRule(id, rule, ArchiveFailing(St)),
                            updateRule(id, rule, St))
      /\ \A id \in Ids :
           LostSnapshotOnly(deleteRule(id, ArchiveFailing(St)), deleteRule(id, St))
      /\ \A id \in Ids, versionId \in 1..nextVersionId :
           LostSnapshotOnly(revertRule(id, versionId, ArchiveFailing(St)),
                            revertRule(id, versionId, St))

\* C33 happens: the first request, an updateRule, succeeded and wrote the
\* rule, and the history of a is still the legacy one: the snapshot of the
\* rule it replaced was not written.
C33_Witness ==
    /\ ret.op = "updateRule"
    /\ ret.ok
    /\ served = 1
    /\ Val(rules["a"]).updatedAt = Some(now)
    /\ versions["a"] = LegacyHistory(MaxLegacyVersions)
    /\ ~IsSome(cachedConfig)

\* C34: in every reachable state, with a cached snapshot or without one, a
\* getConfig(pagination) leaves cachedConfig and lastConfigFetch as
\* they were, is not served from the cache, and returns only rules as they
\* are stored under the keys of the index at the time of the call.
C34_PaginatedReadBypassesCache ==
    Serving =>
      \A page \in QueryValues, limit \in QueryValues :
         hasPaginationParams(page, limit) =>
            LET res == handleGetConfig(page, limit, St)
                listed == res.value.rules
            IN /\ res.st.cachedConfig = cachedConfig
               /\ res.st.lastConfigFetch = lastConfigFetch
               /\ ~res.ret.fromCache
               /\ \A i \in 1..Len(listed) :
                    \E id \in Range(ParseIds(ruleIds)) :
                       rules[id] = Some(listed[i])

\* C34 happens: a paginated getConfig was served while a snapshot with rules
\* in it was cached and fresh, and the snapshot is still there.
C34_Witness ==
    /\ ret.op = "getConfig(pagination)"
    /\ IsSome(cachedConfig)
    /\ Val(cachedConfig) /= <<>>
    /\ now - lastConfigFetch < CACHE_TTL

\* C34 for the empty store: a paginated getConfig was served on an empty
\* index and no snapshot is cached.
C34_WitnessEmpty ==
    /\ ret.op = "getConfig(pagination)"
    /\ ruleIds = Some(<<>>)
    /\ ~IsSome(cachedConfig)

\* C35: whenever a snapshot is cached between operations, it is the
\* configuration an unpaginated read of storage gives at that moment: the
\* rules of the index, with their stored content, in priority order.
C35_CacheMatchesStorage ==
    IsSome(cachedConfig) => Val(cachedConfig) = StoredConfig(ruleIds, rules)

\* C36: between operations, once the migration has run, the index and the
\* rule keys agree: every id of rule_ids has a stored rule under rule_<id>,
\* and every stored rule_<id> has its id in rule_ids.
C36_IndexAndKeysAgree ==
    mig.pc = "ready" =>
      /\ \A id \in Range(ParseIds(ruleIds)) : id \in Ids /\ IsSome(rules[id])
      /\ \A id \in Ids : IsSome(rules[id]) => Contains(ParseIds(ruleIds), id)

\* The pages page..totalPages of getConfig({page, limit}), one after the other.
RECURSIVE PagesFrom(_, _, _, _)
PagesFrom(st, limit, page, totalPages) ==
    IF page > totalPages THEN <<>>
    ELSE getConfigPage([page |-> page, limit |-> limit], st).value.rules
         \o PagesFrom(st, limit, page + 1, totalPages)

\* The page sizes the listings are compared for.
PageSizes == 1..3

\* C37: in every reachable state and for every page size, the pages 1 to
\* totalPages of getConfig({page, limit}), put one after the other, are the
\* list an unpaginated getConfig() returns: every live rule once, in
\* ascending priority.
C37_PagesMatchWholeListing ==
    Serving =>
      \A limit \in PageSizes :
         LET first == getConfigPage([page |-> 1, limit |-> limit], St)
         IN PagesFrom(St, limit, 1, first.value.pagination.totalPages)
              = Val(getConfig(St).st.cachedConfig)

\* C38: every REST request that changes the configuration sends exactly one
\* config_update message, and a request that fails or changes nothing sends
\* none, so the messages sent are as many as the successful mutating requests.
C38_OneMessagePerMutation ==
    [][(served' = served + 1 /\ ret'.op \in Mutating) =>
         ret'.sent = IF ret'.ok THEN 1 ELSE 0]_vars

\* The rule keys and the histories of the ids other than id are as before.
OthersUntouched(id) ==
    \A other \in Ids \ {id} :
       /\ rules'[other] = rules[other]
       /\ versions'[other] = versions[other]

\* C39: addRule, updateRule, deleteRule and revertRule on an id leave the
\* stored rule and the history of every other id as they were; reorderRules
\* leaves the index and the histories as they were, creates and deletes no
\* rule key, and changes no field of a rule but priority and updatedAt.
C39_MutationsTouchOnlyTheirRule ==
    [][/\ Served("addRule") =>
            \A rule \in RequestRules :
               (Serving /\ Apply(addRule(rule, St))) => OthersUntouched(rule.id)
       /\ Served("updateRule") =>
            \A id \in Ids, rule \in UpdateBodies :
               (Serving /\ Apply(updateRule(id, rule, St))) => OthersUntouched(id)
       /\ Served("deleteRule") =>
            \A id \in Ids :
               (Serving /\ Apply(deleteRule(id, St))) => OthersUntouched(id)
       /\ Served("revertRule") =>
            \A id \in Ids, versionId \in 1..nextVersionId :
               (Serving /\ Apply(revertRule(id, versionId, St))) => OthersUntouched(id)
       /\ Served("reorderRules") =>
            /\ ruleIds' = ruleIds
            /\ versions' = versions
            /\ \A id \in Ids :
                 /\ IsSome(rules'[id]) = IsSome(rules[id])
                 /\ IsSome(rules[id]) =>
                      [Val(rules'[id]) EXCEPT
                         !.priority = Val(rules[id]).priority,
                         !.updatedAt = Val(rules[id]).updatedAt] = Val(rules[id])]_vars

====
